---------------------------- MODULE Spec2Model ----------------------------
(***************************************************************************)
(* A model of gensystem (gensystem/utils.py, gensystem/mirror.py).         *)
(*                                                                         *)
(* Python strings are sequences of one-character strings, so that strip,   *)
(* split, startswith, endswith, int() and urlparse are computed and not    *)
(* assumed.  Python's None is the value None below.  An operation that     *)
(* raises ends in the control state "raised" with the exception's class    *)
(* name in its error variable.                                             *)
(***************************************************************************)
EXTENDS Integers, Sequences, FiniteSets, TLC

VARIABLES
    \* verify_download
    download_path,   \* argument: path of the downloaded file
    manifest,        \* lines of the file at digest_path, in order
    fileContent,     \* content of the file at download_path, or NoFile
    vpos,            \* number of manifest lines the file iterator has consumed
    valid_sha512,    \* local variable of verify_download
    vpc,             \* "idle", "scan", "hash", "done", "raised"
    vresult,         \* the returned boolean (meaningful when vpc = "done")
    verr,            \* class of the exception raised (when vpc = "raised")
    \* get_mirrors_from_web, get_mirrors_from_json
    country,         \* argument: the only country to return, or None
    mirrors,         \* local: country name -> (label -> URL)
    country_name,    \* local of get_mirrors_from_web
    mirror_name,     \* local of get_mirrors_from_web, Unbound before line 86
    tag,             \* loop variable of line 71
    ntags,           \* number of tags the loop of line 71 has taken
    ndesc,           \* number of descendants the loop of line 83 has taken
    seen,            \* history: what the scan has met (counts, capped at 2)
    mpc,             \* "idle", "load", "scan", "table", "return", "done",
                     \* "raised"
    mresult,         \* the returned map (when mpc = "done")
    merr,            \* the exception raised (when mpc = "raised")
    \* get_choices, get_user_choice, get_public_ip, download_file
    uop,             \* "idle", "choices", "prompt", "ip", "download"
    items,           \* argument of get_choices
    sort,            \* argument of get_choices
    choices,         \* result of get_choices, argument of get_user_choice
    inputs,          \* the lines raw_input will return, in order
    nread,           \* number of calls of get_raw_input so far
    body,            \* what read_webpage(PUBLIC_IP_API) yields
    fs,              \* the paths that exist on disk
    retrieval,       \* what the call of urllib.urlretrieve did
    upc,             \* "idle", "call", "prompt", "done", "raised"
    uresult,         \* the returned value (when upc = "done")
    uerr             \* the exception raised (when upc = "raised")

verifyVars == <<download_path, manifest, fileContent, vpos, valid_sha512,
                vpc, vresult, verr>>

mirrorVars == <<country, mirrors, country_name, mirror_name, tag, ntags,
                ndesc, seen, mpc, mresult, merr>>

utilVars == <<uop, items, sort, choices, inputs, nread, body, fs, retrieval,
              upc, uresult, uerr>>

vars == <<verifyVars, mirrorVars, utilVars>>

verifyOthers == <<mirrorVars, utilVars>>

mirrorOthers == <<verifyVars, utilVars>>

utilOthers == <<verifyVars, mirrorVars>>

-----------------------------------------------------------------------------
(* Bounds of the model. *)

MaxLines == 4

MaxTags == 4

MaxDesc == 3

MaxItems == 3

MaxReads == 2

MaxBody == 5

-----------------------------------------------------------------------------
(* Python values and string primitives. *)

None == <<"None">>

Whitespace == {" ", "\t", "\n"}

Last(s) == s[Len(s)]

StartsWith(s, prefix) ==
    /\ Len(prefix) <= Len(s)
    /\ SubSeq(s, 1, Len(prefix)) = prefix

EndsWith(s, suffix) ==
    /\ Len(suffix) <= Len(s)
    /\ SubSeq(s, Len(s) - Len(suffix) + 1, Len(s)) = suffix

RECURSIVE LStrip(_)
LStrip(s) ==
    IF s # <<>> /\ Head(s) \in Whitespace THEN LStrip(Tail(s)) ELSE s

RECURSIVE RStrip(_)
RStrip(s) ==
    IF s # <<>> /\ Last(s) \in Whitespace
    THEN RStrip(SubSeq(s, 1, Len(s) - 1))
    ELSE s

\* str.strip()
Strip(s) == RStrip(LStrip(s))

\* str.split(): the maximal runs of non-whitespace characters, in order.
RECURSIVE SplitFrom(_, _, _)
SplitFrom(s, cur, acc) ==
    IF s = <<>>
    THEN IF cur = <<>> THEN acc ELSE Append(acc, cur)
    ELSE IF Head(s) \in Whitespace
         THEN SplitFrom(Tail(s), <<>>,
                        IF cur = <<>> THEN acc ELSE Append(acc, cur))
         ELSE SplitFrom(Tail(s), Append(cur, Head(s)), acc)

Split(s) == SplitFrom(s, <<>>, <<>>)

\* Index of the last occurrence of character c in s, 0 when there is none.
RECURSIVE RFind(_, _)
RFind(s, c) ==
    IF s = <<>> THEN 0
    ELSE IF Last(s) = c THEN Len(s)
    ELSE RFind(SubSeq(s, 1, Len(s) - 1), c)

\* os.path.basename(path): what follows the last "/".
Basename(path) == SubSeq(path, RFind(path, "/") + 1, Len(path))


-----------------------------------------------------------------------------
(* verify_download(download_path, digest_path): utils.py 234-259.          *)
(*                                                                         *)
(* The manifest is the sequence of the lines the file iterator yields.     *)
(* The for loop and digest_file.next() draw from the same iterator, whose  *)
(* position is vpos.  hashlib.sha512 is an injective table over the file   *)
(* contents of the model.                                                  *)

Marker == <<"#", " ", "S", "H", "A", "5", "1", "2", " ", "H", "A", "S", "H">>

NoFile == <<-1>>

Contents == {<<0>>, <<1>>}

\* hashlib.sha512(content).hexdigest()
Sha512Hex(content) == IF content = <<0>> THEN <<"a", "a">> ELSE <<"b", "b">>

\* The manifest lines of the model.
LineAF     == <<" ", "a", "a", " ", "f", " ">>   \* digest aa, file f, padded
LineBF     == <<"b", "b", " ", "f">>             \* digest bb, file f
LineAXF    == <<"a", "a", " ", "x", "f">>        \* file xf: ends with "f"
LineAG     == <<"a", "a", " ", "g">>             \* another file
LineEmpty  == <<>>

LinePool == {Marker, LineAF, LineBF, LineAXF, LineAG, LineEmpty}

PathDF  == <<"d", "/", "f">>
PathDir == <<"d", "/">>                          \* basename is empty

PathPool == {PathDF, PathDir}

Manifests == UNION {[1..n -> LinePool] : n \in 0..MaxLines}

\* line 250
IsMarkerLine(line) == StartsWith(line, Marker)

HashLineMatches_LastToken(hash_line, download_file) ==
    Split(hash_line) # <<>> /\ Last(Split(hash_line)) = download_file

\* line 252
HashLineMatches(hash_line, download_file) == EndsWith(hash_line, download_file)

ExpectedDigest_LastToken(hash_line) == Last(Split(hash_line))

\* line 253 (the caller has checked that there is a token)
ExpectedDigest(hash_line) == Split(hash_line)[1]

\* lines 256-259
DigestsAgree(content, valid) == Sha512Hex(content) = valid

\* line 249: the iterator is exhausted, the loop ends.
VerifyLoopEnd ==
    /\ vpc = "scan"
    /\ vpos = Len(manifest)
    /\ vpc' = "hash"
    /\ UNCHANGED <<download_path, manifest, fileContent, vpos, valid_sha512,
                   vresult, verr>>
    /\ UNCHANGED verifyOthers

\* lines 249-250: a line that is no marker.
VerifyPlainLine ==
    /\ vpc = "scan"
    /\ vpos < Len(manifest)
    /\ ~IsMarkerLine(manifest[vpos + 1])
    /\ vpos' = vpos + 1
    /\ UNCHANGED <<download_path, manifest, fileContent, valid_sha512, vpc,
                   vresult, verr>>
    /\ UNCHANGED verifyOthers

\* lines 250-251: a marker with no line after it; next() raises.
VerifyMarkerAtEnd ==
    /\ vpc = "scan"
    /\ vpos < Len(manifest)
    /\ IsMarkerLine(manifest[vpos + 1])
    /\ vpos + 1 = Len(manifest)
    /\ vpos' = vpos + 1
    /\ vpc' = "raised"
    /\ verr' = "StopIteration"
    /\ UNCHANGED <<download_path, manifest, fileContent, valid_sha512,
                   vresult>>
    /\ UNCHANGED verifyOthers

\* lines 250-254: a marker and the line after it.
VerifyMarkerLine ==
    /\ vpc = "scan"
    /\ vpos < Len(manifest)
    /\ IsMarkerLine(manifest[vpos + 1])
    /\ vpos + 1 < Len(manifest)
    /\ LET hash_line == Strip(manifest[vpos + 2])
           download_file == Basename(download_path)
       IN  /\ vpos' = vpos + 2
           /\ IF HashLineMatches(hash_line, download_file)
              THEN IF Split(hash_line) = <<>>
                   THEN /\ vpc' = "raised"
                        /\ verr' = "IndexError"
                        /\ UNCHANGED valid_sha512
                   ELSE /\ valid_sha512' = ExpectedDigest(hash_line)
                        /\ vpc' = "hash"
                        /\ UNCHANGED verr
              ELSE UNCHANGED <<valid_sha512, vpc, verr>>
    /\ UNCHANGED <<download_path, manifest, fileContent, vresult>>
    /\ UNCHANGED verifyOthers

\* lines 256-259: open(download_path) fails.
VerifyHashNoFile ==
    /\ vpc = "hash"
    /\ fileContent = NoFile
    /\ vpc' = "raised"
    /\ verr' = "IOError"
    /\ UNCHANGED <<download_path, manifest, fileContent, vpos, valid_sha512,
                   vresult>>
    /\ UNCHANGED verifyOthers

\* lines 256-259
VerifyHash ==
    /\ vpc = "hash"
    /\ fileContent # NoFile
    /\ vresult' = DigestsAgree(fileContent, valid_sha512)
    /\ vpc' = "done"
    /\ UNCHANGED <<download_path, manifest, fileContent, vpos, valid_sha512,
                   verr>>
    /\ UNCHANGED verifyOthers

verify_download ==
    \/ VerifyLoopEnd
    \/ VerifyPlainLine
    \/ VerifyMarkerAtEnd
    \/ VerifyMarkerLine
    \/ VerifyHashNoFile
    \/ VerifyHash

\* The call verify_download(download_path, digest_path), line 245.
VerifyStart ==
    /\ download_path \in PathPool
    /\ manifest \in Manifests
    /\ fileContent \in Contents \cup {NoFile}
    /\ (Basename(download_path) = <<>> => fileContent = NoFile)
    /\ vpos = 0
    /\ valid_sha512 = None
    /\ vpc = "scan"
    /\ vresult = FALSE
    /\ verr = "none"

VerifyIdle ==
    /\ download_path = <<>>
    /\ manifest = <<>>
    /\ fileContent = NoFile
    /\ vpos = 0
    /\ valid_sha512 = None
    /\ vpc = "idle"
    /\ vresult = FALSE
    /\ verr = "none"

-----------------------------------------------------------------------------
(* Dictionaries, string formatting and urlparse.                           *)

EmptyDict == <<>>

\* d[k] = v
DictSet(d, k, v) ==
    [x \in DOMAIN d \cup {k} |-> IF x = k THEN v ELSE d[x]]

\* A local variable that has not been assigned yet.
Unbound == <<"<unbound>">>

\* '%s' % x
Str(x) == IF x = None THEN <<"N", "o", "n", "e">> ELSE x

UpperCase == <<"A", "B", "C", "D", "E", "F", "G", "H", "I", "J", "K", "L", "M",
              "N", "O", "P", "Q", "R", "S", "T", "U", "V", "W", "X", "Y", "Z">>

LowerCase == <<"a", "b", "c", "d", "e", "f", "g", "h", "i", "j", "k", "l", "m",
              "n", "o", "p", "q", "r", "s", "t", "u", "v", "w", "x", "y", "z">>

Digits == {"0", "1", "2", "3", "4", "5", "6", "7", "8", "9"}

Range(f) == {f[i] : i \in DOMAIN f}

\* str.lower()
LowerChar(c) ==
    IF c \in Range(UpperCase)
    THEN LowerCase[CHOOSE i \in DOMAIN UpperCase : UpperCase[i] = c]
    ELSE c

Lower(s) == [i \in DOMAIN s |-> LowerChar(s[i])]

\* urlparse.scheme_chars
SchemeChars ==
    Range(UpperCase) \cup Range(LowerCase) \cup Digits \cup {"+", "-", "."}

\* Index of the first occurrence of character c in s, 0 when there is none.
Find(s, c) ==
    IF \E i \in DOMAIN s : s[i] = c
    THEN CHOOSE i \in DOMAIN s : s[i] = c /\ \A j \in 1..(i - 1) : s[j] # c
    ELSE 0

\* urlparse(url).scheme: the text before the first ":" in lower case when it
\* is made of scheme characters and what follows is not a port number.
UrlScheme(url) ==
    LET i == Find(url, ":")
        rest == SubSeq(url, i + 1, Len(url))
    IN  IF i > 1 /\ (\A j \in 1..(i - 1) : url[j] \in SchemeChars)
             /\ (SubSeq(url, 1, i - 1) = <<"h", "t", "t", "p">>
                 \/ rest = <<>>
                 \/ \E j \in DOMAIN rest : rest[j] \notin Digits)
        THEN Lower(SubSeq(url, 1, i - 1))
        ELSE <<>>

-----------------------------------------------------------------------------
(* get_mirrors_from_web(country): mirror.py 18-99, and                     *)
(* get_mirrors_from_json(country): mirror.py 102-120.                      *)
(*                                                                         *)
(* The tags of the page arrive one at a time in document order, each drawn *)
(* from TagPool; the descendants of a table arrive likewise from DescPool. *)
(* A tag is [name, id, string]; a descendant is [name, rowspan, string,    *)
(* href]; an attribute or string that is absent is None.                   *)

SUPPORTED_COUNTRIES ==
    {<<"C", "A">>, <<"U", "S">>, <<"A", "R">>, <<"B", "R">>,
     <<"A", "T">>, <<"B", "G">>, <<"C", "Z">>, <<"F", "I">>,
     <<"F", "R">>, <<"D", "E">>, <<"G", "R">>, <<"I", "E">>,
     <<"N", "L">>, <<"P", "L">>, <<"P", "T">>, <<"R", "O">>,
     <<"S", "E">>, <<"S", "K">>, <<"E", "S">>, <<"C", "H">>,
     <<"T", "R">>, <<"U", "A">>, <<"U", "K">>, <<"A", "U">>,
     <<"C", "N">>, <<"H", "K">>, <<"J", "P">>, <<"K", "R">>,
     <<"R", "U">>, <<"T", "W">>, <<"I", "L">>, <<"K", "Z">>}

HttpWord == <<"h", "t", "t", "p">>

Canada == <<"C", "a", "n", "a", "d", "a">>
USA    == <<"U", "S", "A">>
Atlantis == <<"A", "t", "l", "a", "n", "t", "i", "s">>

TextCA == <<"C", "A", " ", "-", " ">> \o Canada
TextUS == <<"U", "S", " ", "-", " ">> \o USA

H3(id, string) == [name |-> "h3", id |-> id, string |-> string]

TagPool ==
    {H3(<<"C", "A">>, TextCA),
     H3(<<"U", "S">>, TextUS),
     H3(<<"C", "A">>, <<"C", "A">>),          \* fewer than three tokens
     H3(<<"C", "A">>, None),                  \* no plain text
     H3(<<"X", "X">>, TextCA),                \* id not supported
     [name |-> "h2", id |-> <<"C", "A">>, string |-> TextCA],
     [name |-> "table", id |-> None, string |-> None]}

NoTag == [name |-> "none", id |-> None, string |-> None]

M1 == <<"M", "1">>

UrlHttp  == <<"h", "t", "t", "p", ":", "/", "/", "a">>
UrlFtp   == <<"f", "t", "p", ":", "/", "/", "a">>
UrlHttps == <<"h", "t", "t", "p", "s", ":", "/", "/", "a">>
UrlUpper == <<"H", "T", "T", "P", ":", "/", "/", "b">>

Td(rowspan, string) ==
    [name |-> "td", rowspan |-> rowspan, string |-> string, href |-> None]

A(href) == [name |-> "a", rowspan |-> None, string |-> None, href |-> href]

DescPool ==
    {Td(<<"2">>, M1),
     Td(<<"2">>, None),                       \* name cell without plain text
     Td(None, M1),                            \* cell that spans no rows
     A(UrlHttp), A(UrlFtp), A(UrlHttps), A(UrlUpper),
     A(None)}                                 \* link without href

\* Python truth of a string or None.
Truthy(x) == x # None /\ x # <<>>

\* line 73
IsCountryHeading(t) == t.name = "h3" /\ t.id \in SUPPORTED_COUNTRIES

\* line 85
IsNameCell(d) == d.name = "td" /\ Truthy(d.rowspan)

\* line 90
NameWithProtocol(name, protocol) ==
    Str(name) \o <<" ", "(">> \o protocol \o <<")">>

StoresLink_Prefix(protocol) == StartsWith(protocol, HttpWord)

\* line 92
StoresLink(protocol) == protocol = HttpWord

Bump(n) == IF n < 2 THEN n + 1 ELSE 2

\* seen: recognised headings, tables scanned inside a section, tables met
\* outside any section, tables scanned since the last recognised heading,
\* and name cells, http links and other links of the last table scanned.
NothingSeen == [h3 |-> 0, tables |-> 0, stray |-> 0, sinceH3 |-> 0,
                cells |-> 0, http |-> 0, other |-> 0]

\* lines 73-77: a recognised heading opens a country section.
ScanHeading ==
    /\ mpc = "scan"
    /\ ntags < MaxTags
    /\ \E t \in TagPool :
          /\ IsCountryHeading(t)
          /\ t.string # None
          /\ Len(Split(t.string)) >= 3
          /\ tag' = t
          /\ country_name' = Split(t.string)[3]
          /\ mirrors' = DictSet(mirrors, Split(t.string)[3], EmptyDict)
    /\ ntags' = ntags + 1
    /\ seen' = [seen EXCEPT !.h3 = Bump(@), !.sinceH3 = 0]
    /\ UNCHANGED <<country, mirror_name, ndesc, mpc, mresult,
                   merr>>
    /\ UNCHANGED mirrorOthers

\* line 75: the heading has no plain text or fewer than three tokens.
ScanHeadingRaises ==
    /\ mpc = "scan"
    /\ ntags < MaxTags
    /\ \E t \in TagPool :
          /\ IsCountryHeading(t)
          /\ t.string = None \/ Len(Split(t.string)) < 3
          /\ tag' = t
          /\ merr' = IF t.string = None THEN "AttributeError"
                                        ELSE "IndexError"
    /\ ntags' = ntags + 1
    /\ mpc' = "raised"
    /\ UNCHANGED <<country, mirrors, country_name, mirror_name, ndesc, seen, mresult>>
    /\ UNCHANGED mirrorOthers

\* line 80: a table inside an open country section.
ScanTable ==
    /\ mpc = "scan"
    /\ ntags < MaxTags
    /\ country_name # None
    /\ \E t \in TagPool :
          /\ ~IsCountryHeading(t)
          /\ t.name = "table"
          /\ tag' = t
    /\ ntags' = ntags + 1
    /\ ndesc' = 0
    /\ mpc' = "table"
    /\ seen' = [seen EXCEPT !.tables = Bump(@), !.sinceH3 = Bump(@),
                            !.cells = 0, !.http = 0, !.other = 0]
    /\ UNCHANGED <<country, mirrors, country_name, mirror_name, mresult, merr>>
    /\ UNCHANGED mirrorOthers

\* line 80: a table outside any country section.
ScanStrayTable ==
    /\ mpc = "scan"
    /\ ntags < MaxTags
    /\ country_name = None
    /\ \E t \in TagPool :
          /\ ~IsCountryHeading(t)
          /\ t.name = "table"
          /\ tag' = t
    /\ ntags' = ntags + 1
    /\ seen' = [seen EXCEPT !.stray = Bump(@)]
    /\ UNCHANGED <<country, mirrors, country_name, mirror_name, ndesc, mpc,
                   mresult, merr>>
    /\ UNCHANGED mirrorOthers

\* lines 73, 80: any other tag.
ScanOtherTag ==
    /\ mpc = "scan"
    /\ ntags < MaxTags
    /\ \E t \in TagPool :
          /\ ~IsCountryHeading(t)
          /\ t.name # "table"
          /\ tag' = t
    /\ ntags' = ntags + 1
    /\ UNCHANGED <<country, mirrors, country_name, mirror_name, ndesc, seen, mpc, mresult, merr>>
    /\ UNCHANGED mirrorOthers

\* lines 85-86: a name cell that spans rows.
TableNameCell ==
    /\ mpc = "table"
    /\ ndesc < MaxDesc
    /\ \E d \in DescPool :
          /\ IsNameCell(d)
          /\ mirror_name' = d.string
    /\ ndesc' = ndesc + 1
    /\ seen' = [seen EXCEPT !.cells = Bump(@)]
    /\ UNCHANGED <<country, mirrors, country_name, tag, ntags, mpc, mresult,
                   merr>>
    /\ UNCHANGED mirrorOthers

TableLink_UnnamedAllowed ==
    /\ mpc = "table"
    /\ ndesc < MaxDesc
    /\ \E d \in DescPool :
          /\ d.name = "a"
          /\ d.href # None
          /\ LET protocol == UrlScheme(d.href)
                 name == IF mirror_name = Unbound THEN None ELSE mirror_name
             IN  /\ mirrors' =
                        IF StoresLink(protocol)
                        THEN DictSet(mirrors, country_name,
                                     DictSet(mirrors[country_name],
                                             NameWithProtocol(name, protocol),
                                             d.href))
                        ELSE mirrors
                 /\ seen' = IF protocol = HttpWord
                            THEN [seen EXCEPT !.http = Bump(@)]
                            ELSE [seen EXCEPT !.other = Bump(@)]
    /\ ndesc' = ndesc + 1
    /\ UNCHANGED <<country, country_name, mirror_name, tag, ntags, mpc,
                   mresult, merr>>
    /\ UNCHANGED mirrorOthers

\* lines 87-94: a link.
TableLink ==
    /\ mpc = "table"
    /\ ndesc < MaxDesc
    /\ mirror_name # Unbound
    /\ \E d \in DescPool :
          /\ d.name = "a"
          /\ d.href # None
          /\ LET mirror_link == d.href
                 protocol == UrlScheme(mirror_link)
                 name_with_protocol == NameWithProtocol(mirror_name, protocol)
             IN  /\ mirrors' =
                        IF StoresLink(protocol)
                        THEN DictSet(mirrors, country_name,
                                     DictSet(mirrors[country_name],
                                             name_with_protocol, mirror_link))
                        ELSE mirrors
                 /\ seen' = IF protocol = HttpWord
                            THEN [seen EXCEPT !.http = Bump(@)]
                            ELSE [seen EXCEPT !.other = Bump(@)]
    /\ ndesc' = ndesc + 1
    /\ UNCHANGED <<country, country_name, mirror_name, tag, ntags, mpc,
                   mresult, merr>>
    /\ UNCHANGED mirrorOthers

\* lines 88, 90: a link without href, or a link before any name cell.
TableLinkRaises ==
    /\ mpc = "table"
    /\ ndesc < MaxDesc
    /\ \E d \in DescPool :
          /\ d.name = "a"
          /\ d.href = None \/ mirror_name = Unbound
          /\ merr' = IF d.href = None THEN "KeyError(href)"
                                      ELSE "UnboundLocalError"
    /\ ndesc' = ndesc + 1
    /\ mpc' = "raised"
    /\ UNCHANGED <<country, mirrors, country_name, mirror_name, tag, ntags,
                   seen, mresult>>
    /\ UNCHANGED mirrorOthers

\* lines 85, 87: any other descendant.
TableOther ==
    /\ mpc = "table"
    /\ ndesc < MaxDesc
    /\ \E d \in DescPool :
          /\ ~IsNameCell(d)
          /\ d.name # "a"
    /\ ndesc' = ndesc + 1
    /\ UNCHANGED <<country, mirrors, country_name, mirror_name, tag, ntags,
                   seen, mpc, mresult, merr>>
    /\ UNCHANGED mirrorOthers

TableEnd_KeepCountry ==
    /\ mpc = "table"
    /\ mpc' = "scan"
    /\ UNCHANGED <<country, mirrors, country_name, mirror_name, tag,
                   ntags, ndesc, seen, mresult, merr>>
    /\ UNCHANGED mirrorOthers

\* lines 83, 97: the table has no more descendants.
TableEnd ==
    /\ mpc = "table"
    /\ country_name' = None
    /\ mpc' = "scan"
    /\ UNCHANGED <<country, mirrors, mirror_name, tag, ntags,
                   ndesc, seen, mresult, merr>>
    /\ UNCHANGED mirrorOthers

\* line 71: the page has no more tags.
ScanEnd ==
    /\ mpc = "scan"
    /\ mpc' = "return"
    /\ UNCHANGED <<country, mirrors, country_name, mirror_name, tag,
                   ntags, ndesc, seen, mresult, merr>>
    /\ UNCHANGED mirrorOthers

\* lines 99 and 117, for a country the map holds or no country.
ReturnMirrors ==
    /\ mpc = "return"
    /\ Truthy(country) => country \in DOMAIN mirrors
    /\ mresult' = IF Truthy(country)
                  THEN [c \in {country} |-> mirrors[c]]
                  ELSE mirrors
    /\ mpc' = "done"
    /\ UNCHANGED <<country, mirrors, country_name, mirror_name, tag,
                   ntags, ndesc, seen, merr>>
    /\ UNCHANGED mirrorOthers

\* lines 99 and 117, for a country the map does not hold: mirrors[country].
ReturnMirrorsRaises ==
    /\ mpc = "return"
    /\ Truthy(country)
    /\ country \notin DOMAIN mirrors
    /\ merr' = "KeyError(country)"
    /\ mpc' = "raised"
    /\ UNCHANGED <<country, mirrors, country_name, mirror_name, tag,
                   ntags, ndesc, seen, mresult>>
    /\ UNCHANGED mirrorOthers

\* The contents data/mirrors.json can have: absent, not JSON, or a catalog.
CatalogPool ==
    {EmptyDict,
     [c \in {Canada} |-> [l \in {NameWithProtocol(M1, HttpWord)} |-> UrlHttp]],
     [c \in {Canada, USA} |->
         [l \in {NameWithProtocol(M1, HttpWord)} |-> UrlUpper]]}

\* lines 114-116: the file is read and parsed.
JsonLoad ==
    /\ mpc = "load"
    /\ \E catalog \in CatalogPool : mirrors' = catalog
    /\ mpc' = "return"
    /\ UNCHANGED <<country, country_name, mirror_name, tag, ntags, ndesc,
                   seen, mresult, merr>>
    /\ UNCHANGED mirrorOthers

\* lines 118-120: the file is absent (IOError) or is not JSON (ValueError).
JsonLoadRaises ==
    /\ mpc = "load"
    /\ merr' = "RuntimeError"
    /\ mpc' = "raised"
    /\ UNCHANGED <<country, mirrors, country_name, mirror_name, tag, ntags,
                   ndesc, seen, mresult>>
    /\ UNCHANGED mirrorOthers

get_mirrors_from_json ==
    \/ JsonLoad
    \/ JsonLoadRaises
    \/ ReturnMirrors
    \/ ReturnMirrorsRaises

get_mirrors_from_web ==
    \/ ScanHeading
    \/ ScanHeadingRaises
    \/ ScanTable
    \/ ScanStrayTable
    \/ ScanOtherTag
    \/ TableNameCell
    \/ TableLink
    \/ TableLinkRaises
    \/ TableOther
    \/ TableEnd
    \/ ScanEnd
    \/ ReturnMirrors
    \/ ReturnMirrorsRaises

CountryArgs == {None, <<>>, Canada, Atlantis}

\* The call get_mirrors_from_web(country), lines 67-68, or the call
\* get_mirrors_from_json(country), line 112.
MirrorStart ==
    /\ country \in CountryArgs
    /\ mirrors = EmptyDict
    /\ country_name = None
    /\ mirror_name = Unbound
    /\ tag = NoTag
    /\ ntags = 0
    /\ ndesc = 0
    /\ seen = NothingSeen
    /\ mpc \in {"scan", "load"}
    /\ mresult = EmptyDict
    /\ merr = "none"

MirrorIdle ==
    /\ country = None
    /\ mirrors = EmptyDict
    /\ country_name = None
    /\ mirror_name = Unbound
    /\ tag = NoTag
    /\ ntags = 0
    /\ ndesc = 0
    /\ seen = NothingSeen
    /\ mpc = "idle"
    /\ mresult = EmptyDict
    /\ merr = "none"

-----------------------------------------------------------------------------
(* get_choices and get_user_choice: utils.py 115-192.                      *)

\* The printable ASCII characters in code point order, from code 32 (the
\* backslash and the backtick are spelled out).
Printable ==
    <<" ", "!", "\"", "#", "$", "%", "&", "'", "(", ")", "*", "+",
      ",", "-", ".", "/", "0", "1", "2", "3", "4", "5", "6", "7",
      "8", "9", ":", ";", "<", "=", ">", "?", "@", "A", "B", "C",
      "D", "E", "F", "G", "H", "I", "J", "K", "L", "M", "N", "O",
      "P", "Q", "R", "S", "T", "U", "V", "W", "X", "Y", "Z", "[",
      "backslash", "]", "^", "_", "backtick", "a", "b", "c", "d", "e", "f", "g",
      "h", "i", "j", "k", "l", "m", "n", "o", "p", "q", "r", "s",
      "t", "u", "v", "w", "x", "y", "z", "{", "|", "}", "~">>

\* ord(c)
Ord(c) == 31 + CHOOSE i \in DOMAIN Printable : Printable[i] = c

\* a < b for Python strings: the first differing character decides, a proper
\* prefix is smaller.
RECURSIVE StrLess(_, _)
StrLess(a, b) ==
    IF b = <<>> THEN FALSE
    ELSE IF a = <<>> THEN TRUE
    ELSE IF Head(a) # Head(b) THEN Ord(Head(a)) < Ord(Head(b))
    ELSE StrLess(Tail(a), Tail(b))

\* sorted(): stable insertion of each item after the items not greater.
RECURSIVE InsertSorted(_, _)
InsertSorted(x, s) ==
    IF s = <<>> THEN <<x>>
    ELSE IF StrLess(x, Head(s)) THEN <<x>> \o s
    ELSE <<Head(s)>> \o InsertSorted(x, Tail(s))

RECURSIVE Sorted(_)
Sorted(s) ==
    IF s = <<>> THEN <<>>
    ELSE InsertSorted(Last(s), Sorted(SubSeq(s, 1, Len(s) - 1)))

Max(S) == CHOOSE x \in S : \A y \in S : y <= x

get_choices_FromZero(its, srt) ==
    LET seq == IF srt THEN Sorted(its) ELSE its
    IN  [item \in Range(seq) |->
            Max({i \in DOMAIN seq : seq[i] = item}) - 1]

\* lines 127-130: a later duplicate overwrites the ordinal of an earlier one.
get_choices(its, srt) ==
    LET seq == IF srt THEN Sorted(its) ELSE its
    IN  [item \in Range(seq) |-> Max({i \in DOMAIN seq : seq[i] = item})]

NotAnInt == [ok |-> FALSE, val |-> 0]

DigitChars == <<"0", "1", "2", "3", "4", "5", "6", "7", "8", "9">>

\* the value of a decimal digit
DigitValue(c) == (CHOOSE i \in 1..10 : DigitChars[i] = c) - 1

RECURSIVE DigitsValue(_)
DigitsValue(s) ==
    IF s = <<>> THEN 0
    ELSE 10 * DigitsValue(SubSeq(s, 1, Len(s) - 1)) + DigitValue(Last(s))

\* int(text): surrounding whitespace is dropped, a sign may lead, the rest
\* must be decimal digits; anything else is a ValueError.
ParseInt(text) ==
    LET t == Strip(text)
        signed == t # <<>> /\ Head(t) \in {"+", "-"}
        digits == IF signed THEN Tail(t) ELSE t
    IN  IF digits # <<>> /\ \A i \in DOMAIN digits : digits[i] \in Digits
        THEN [ok |-> TRUE,
              val |-> IF signed /\ Head(t) = "-" THEN 0 - DigitsValue(digits)
                                                ELSE DigitsValue(digits)]
        ELSE NotAnInt

IsValidChoice_AnyInt(choice, chs) == TRUE

\* line 152, with valid_choices of line 147
IsValidChoice(choice, chs) == choice \in Range(chs)

\* lines 188-192
get_choice_value(user_choice, chs) ==
    IF \E name \in DOMAIN chs : chs[name] = user_choice
    THEN CHOOSE name \in DOMAIN chs : chs[name] = user_choice
    ELSE None

ItemA  == <<"A">>
ItemB  == <<"B">>
ItemAB == <<"A", "B">>

ItemPool == {ItemA, ItemB, ItemAB}

ItemSeqs == UNION {[1..n -> ItemPool] : n \in 0..MaxItems}

InputPool == {<<"1">>, <<" ", "2", " ">>, <<"x">>, <<"7">>}

InputSeqs == UNION {[1..n -> InputPool] : n \in 0..MaxReads}

\* The dictionaries get_user_choice is called with: those get_choices builds.
ChoiceArgs == {get_choices(its, srt) : its \in ItemSeqs, srt \in BOOLEAN}

\* The call get_choices(its, srt).
GetChoices ==
    /\ uop = "choices"
    /\ upc = "call"
    /\ \E its \in ItemSeqs, srt \in BOOLEAN :
          /\ items' = its
          /\ sort' = srt
          /\ choices' = get_choices(its, srt)
    /\ upc' = "done"
    /\ UNCHANGED <<uop, inputs, nread, body, fs, retrieval, uresult, uerr>>
    /\ UNCHANGED utilOthers

\* The call get_user_choice(prompt, chs), line 147, with the lines raw_input
\* will yield.
PromptStart ==
    /\ uop = "prompt"
    /\ upc = "call"
    /\ \E chs \in ChoiceArgs, lines \in InputSeqs :
          /\ choices' = chs
          /\ inputs' = lines
    /\ upc' = "prompt"
    /\ UNCHANGED <<uop, items, sort, nread, body, fs, retrieval, uresult,
                   uerr>>
    /\ UNCHANGED utilOthers

\* lines 149-154: the line is no integer or no ordinal of choices.
PromptInvalid ==
    /\ uop = "prompt"
    /\ upc = "prompt"
    /\ nread < Len(inputs)
    /\ LET parsed == ParseInt(inputs[nread + 1])
       IN  ~(parsed.ok /\ IsValidChoice(parsed.val, choices))
    /\ nread' = nread + 1
    /\ UNCHANGED <<uop, items, sort, choices, inputs, body, fs, retrieval,
                   upc, uresult, uerr>>
    /\ UNCHANGED utilOthers

\* lines 149-158: the line is an ordinal of choices.
PromptValid ==
    /\ uop = "prompt"
    /\ upc = "prompt"
    /\ nread < Len(inputs)
    /\ LET parsed == ParseInt(inputs[nread + 1])
       IN  /\ parsed.ok
           /\ IsValidChoice(parsed.val, choices)
           /\ uresult' = get_choice_value(parsed.val, choices)
    /\ nread' = nread + 1
    /\ upc' = "done"
    /\ UNCHANGED <<uop, items, sort, choices, inputs, body, fs, retrieval,
                   uerr>>
    /\ UNCHANGED utilOthers

\* line 151: the input has ended, raw_input raises.
PromptEndOfInput ==
    /\ uop = "prompt"
    /\ upc = "prompt"
    /\ nread = Len(inputs)
    /\ nread' = nread + 1
    /\ upc' = "raised"
    /\ uerr' = "EOFError"
    /\ UNCHANGED <<uop, items, sort, choices, inputs, body, fs, retrieval,
                   uresult>>
    /\ UNCHANGED utilOthers

get_user_choice ==
    \/ PromptStart
    \/ PromptInvalid
    \/ PromptValid
    \/ PromptEndOfInput

-----------------------------------------------------------------------------
(* get_public_ip: utils.py 19-66.                                          *)
(*                                                                         *)
(* A response body is a sequence of JSON tokens; json.loads accepts a      *)
(* string, a list of at most one value and an object of at most one        *)
(* member.                                                                 *)

FetchFailed == <<"URLError">>

IpKey == "\"ip\""

JsonStrings == {IpKey, "\"x\""}

JsonTokens == {"{", "}", "[", "]", ":"} \cup JsonStrings

Bodies == UNION {[1..n -> JsonTokens] : n \in 0..MaxBody}

\* The index after the JSON value that starts at toks[i], 0 if there is none.
RECURSIVE ValueEnd(_, _)
ValueEnd(toks, i) ==
    LET at(k) == IF k <= Len(toks) THEN toks[k] ELSE "" IN
    IF at(i) \in JsonStrings THEN i + 1
    ELSE IF at(i) = "[" THEN
        IF at(i + 1) = "]" THEN i + 2
        ELSE LET j == ValueEnd(toks, i + 1)
             IN  IF j # 0 /\ at(j) = "]" THEN j + 1 ELSE 0
    ELSE IF at(i) = "{" THEN
        IF at(i + 1) = "}" THEN i + 2
        ELSE IF at(i + 1) \in JsonStrings /\ at(i + 2) = ":"
        THEN LET j == ValueEnd(toks, i + 3)
             IN  IF j # 0 /\ at(j) = "}" THEN j + 1 ELSE 0
        ELSE 0
    ELSE 0

\* json.loads(text) does not raise ValueError.
IsJson(toks) == ValueEnd(toks, 1) = Len(toks) + 1

\* lines 61-66: json.loads(read_webpage(PUBLIC_IP_API))['ip'] and the except
\* clause.  Indexing a list or a string with 'ip' is a TypeError.
PublicIpOutcome(b) ==
    IF b = FetchFailed \/ ~IsJson(b) THEN [raised |-> "none", value |-> None]
    ELSE IF b[1] # "{" THEN [raised |-> "TypeError", value |-> None]
    ELSE IF b[2] = IpKey
    THEN [raised |-> "none", value |-> SubSeq(b, 4, Len(b) - 1)]
    ELSE [raised |-> "none", value |-> None]

\* The call get_public_ip() that returns.
GetPublicIp ==
    /\ uop = "ip"
    /\ upc = "call"
    /\ PublicIpOutcome(body).raised = "none"
    /\ uresult' = PublicIpOutcome(body).value
    /\ upc' = "done"
    /\ UNCHANGED <<uop, items, sort, choices, inputs, nread, body, fs,
                   retrieval, uerr>>
    /\ UNCHANGED utilOthers

\* The call get_public_ip() that raises.
GetPublicIpRaises ==
    /\ uop = "ip"
    /\ upc = "call"
    /\ PublicIpOutcome(body).raised # "none"
    /\ uerr' = PublicIpOutcome(body).raised
    /\ upc' = "raised"
    /\ UNCHANGED <<uop, items, sort, choices, inputs, nread, body, fs,
                   retrieval, uresult>>
    /\ UNCHANGED utilOthers

get_public_ip == GetPublicIp \/ GetPublicIpRaises

-----------------------------------------------------------------------------
(* download_file(url, destination, hook): utils.py 214-231.                *)
(*                                                                         *)
(* urllib.urlretrieve either raises an IOError with a message or returns   *)
(* (filename, headers); either way it may or may not have left a file at   *)
(* the destination.                                                        *)

Destination == <<"/", "t">>

ErrorMessages == {<<"E", "1">>, <<"E", "2">>}

NoRetrieval == [calls |-> 0, raised |-> FALSE, message |-> None,
                returned |-> None]

RetrievalOutcomes ==
    {[calls |-> 1, raised |-> TRUE, message |-> m, returned |-> None] :
        m \in ErrorMessages}
    \cup {[calls |-> 1, raised |-> FALSE, message |-> None,
           returned |-> Destination]}

DownloadResult_TrustCall(raised, message, exists) ==
    IF raised THEN <<FALSE, message>> ELSE <<TRUE, None>>

\* lines 226-231
DownloadResult(raised, message, exists) ==
    IF raised THEN <<FALSE, message>> ELSE <<exists, None>>

\* The call download_file(url, Destination).
DownloadFile ==
    /\ uop = "download"
    /\ upc = "call"
    /\ \E outcome \in RetrievalOutcomes, written \in BOOLEAN :
          /\ retrieval' = outcome
          /\ fs' = IF written THEN fs \cup {Destination} ELSE fs
          /\ uresult' = DownloadResult(outcome.raised, Str(outcome.message),
                                       Destination \in fs')
    /\ upc' = "done"
    /\ UNCHANGED <<uop, items, sort, choices, inputs, nread, body, uerr>>
    /\ UNCHANGED utilOthers

download_file == DownloadFile

UtilStart(ops) ==
    /\ uop \in ops
    /\ items = <<>>
    /\ sort = TRUE
    /\ choices = EmptyDict
    /\ inputs = <<>>
    /\ nread = 0
    /\ body \in (IF uop = "ip" THEN Bodies \cup {FetchFailed} ELSE {<<>>})
    /\ fs \in (IF uop = "download" THEN {{}, {Destination}} ELSE {{}})
    /\ retrieval = NoRetrieval
    /\ upc = "call"
    /\ uresult = None
    /\ uerr = "none"

UtilIdle ==
    /\ uop = "idle"
    /\ items = <<>>
    /\ sort = TRUE
    /\ choices = EmptyDict
    /\ inputs = <<>>
    /\ nread = 0
    /\ body = <<>>
    /\ fs = {}
    /\ retrieval = NoRetrieval
    /\ upc = "idle"
    /\ uresult = None
    /\ uerr = "none"

-----------------------------------------------------------------------------
(* Specifications: one per group of operations; the operations share no    *)
(* state, so each is checked with the others idle.                         *)

InitVerify == VerifyStart /\ MirrorIdle /\ UtilIdle

NextVerify == verify_download

SpecVerify == InitVerify /\ [][NextVerify]_vars

InitMirror == VerifyIdle /\ MirrorStart /\ UtilIdle

NextMirror == get_mirrors_from_web \/ get_mirrors_from_json

SpecMirror == InitMirror /\ [][NextMirror]_vars

InitChoices == VerifyIdle /\ MirrorIdle /\ UtilStart({"choices", "prompt"})

NextChoices == GetChoices \/ get_user_choice

\* get_user_choice runs its loop as long as raw_input returns lines.
SpecChoices == InitChoices /\ [][NextChoices]_vars /\ WF_vars(get_user_choice)

InitNet == VerifyIdle /\ MirrorIdle /\ UtilStart({"ip", "download"})

NextNet == get_public_ip \/ download_file

SpecNet == InitNet /\ [][NextNet]_vars

Init == InitVerify \/ InitMirror \/ InitChoices \/ InitNet

Next == NextVerify \/ NextMirror \/ NextChoices \/ NextNet

Spec == Init /\ [][Next]_vars /\ WF_vars(get_user_choice)

-----------------------------------------------------------------------------
(* Properties of verify_download.                                          *)

TargetName == Basename(download_path)

MarkerLines == {i \in 1..Len(manifest) : IsMarkerLine(manifest[i])}

Min(S) == CHOOSE x \in S : \A y \in S : x <= y

\* The indices the for loop takes as `line` from index i on, were it never
\* to stop early: a marker's following line is consumed by next().
RECURSIVE LoopLinesFrom(_)
LoopLinesFrom(i) ==
    IF i > Len(manifest) THEN {}
    ELSE {i} \cup LoopLinesFrom(IF IsMarkerLine(manifest[i]) THEN i + 2
                                                            ELSE i + 1)

\* The lines read by next(): each follows a marker that the loop reads.
Candidates ==
    {i + 1 : i \in {j \in LoopLinesFrom(1) :
                       IsMarkerLine(manifest[j]) /\ j < Len(manifest)}}

Tokens(i) == Split(Strip(manifest[i]))

MatchingCandidates ==
    {j \in Candidates : EndsWith(Strip(manifest[j]), TargetName)}

FirstMatching == Min(MatchingCandidates)

\* The candidate of the first marker names the file by its last token.
FirstMarkerRecordNamesFile ==
    /\ MarkerLines # {}
    /\ Min(MarkerLines) < Len(manifest)
    /\ Tokens(Min(MarkerLines) + 1) # <<>>
    /\ Last(Tokens(Min(MarkerLines) + 1)) = TargetName

\* The candidate of the first marker ends with the basename.
FirstMarkerRecordEndsWithFile ==
    /\ MarkerLines # {}
    /\ Min(MarkerLines) < Len(manifest)
    /\ EndsWith(Strip(manifest[Min(MarkerLines) + 1]), TargetName)

\* C1 as stated: verify returns true exactly when the line immediately after
\* the (first) marker ends with the basename and its leading token is the
\* SHA-512 hex digest of the file; false when that line does not end with it.
C1_TrueIffLineAfterMarkerAgrees ==
    vpc = "done" =>
        (vresult <=> /\ FirstMarkerRecordEndsWithFile
                     /\ Tokens(Min(MarkerLines) + 1) # <<>>
                     /\ Tokens(Min(MarkerLines) + 1)[1]
                            = Sha512Hex(fileContent))

\* The first line after a marker that ends with the basename leads with the
\* SHA-512 hex digest of the readable downloaded file.
FirstMatchingRecordAgrees ==
    /\ fileContent # NoFile
    /\ MatchingCandidates # {}
    /\ Tokens(FirstMatching) # <<>>
    /\ Tokens(FirstMatching)[1] = Sha512Hex(fileContent)

\* C1 amended: verify returns true exactly when some marker read by the loop
\* is followed by a line that ends with the basename and the leading token of
\* the first such line is the SHA-512 hex digest of the file, and in that
\* case it does not raise; it never returns true when there is no marker,
\* when no line after a marker ends with the basename, or when the digest of
\* the first such line differs.
C1_TrueIffFirstMatchingRecordAgrees ==
    /\ vpc = "done" => (vresult <=> FirstMatchingRecordAgrees)
    /\ vpc = "raised" => ~FirstMatchingRecordAgrees

\* verify has returned true on a record that follows a later marker.
C1_Witness ==
    /\ vpc = "done"
    /\ vresult
    /\ ~FirstMarkerRecordEndsWithFile
    /\ Cardinality(MarkerLines) >= 2

\* C2: digest verification never raises: whatever the manifest holds, with a
\* readable downloaded file verify ends by returning.
C2_VerifyNeverRaises == fileContent # NoFile => vpc # "raised"

\* C9 as stated: the line after the first marker is the sole candidate; the
\* expected digest is its first token if its last token is the basename, and
\* otherwise none is recorded by any later line and verify returns false.
C9_OnlyFirstMarkerRecord ==
    /\ vpc \in {"hash", "done"} =>
           valid_sha512 = IF FirstMarkerRecordNamesFile
                          THEN Tokens(Min(MarkerLines) + 1)[1]
                          ELSE None
    /\ vpc = "done" /\ ~FirstMarkerRecordNamesFile => ~vresult

\* C9 amended: only a line immediately following a marker read by the loop
\* is a candidate; the expected digest is the first token of the first
\* candidate whose stripped text ends with the basename, and the scan stops
\* on it; a candidate that does not end with the basename records nothing
\* and the scan goes on after it, so that a later marker can supply the
\* expected digest; with no such candidate none is recorded, the whole
\* manifest is read and verify does not return true.
C9_FirstMatchingCandidateOnly ==
    /\ vpc = "scan" => valid_sha512 = None
    /\ vpc \in {"hash", "done"} \/ (vpc = "raised" /\ verr = "IOError") =>
           IF MatchingCandidates = {}
           THEN valid_sha512 = None /\ vpos = Len(manifest)
           ELSE /\ valid_sha512 = Tokens(FirstMatching)[1]
                /\ vpos = FirstMatching
    /\ vpc = "done" /\ MatchingCandidates = {} => ~vresult

\* The scan went past a candidate that does not end with the basename and
\* recorded the digest of a later one.
C9_Witness ==
    /\ vpc = "hash"
    /\ valid_sha512 # None
    /\ \E j \in Candidates : j < vpos /\ j \notin MatchingCandidates

-----------------------------------------------------------------------------
(* Properties of get_mirrors_from_web and get_mirrors_from_json.           *)

\* The URL reads http://..., in any letter case of the scheme.
HasHttpScheme(url) ==
    /\ Len(url) >= 5
    /\ Lower(SubSeq(url, 1, 4)) = <<"h", "t", "t", "p">>
    /\ url[5] = ":"

HttpLabel(name) == Str(name) \o <<" ", "(", "h", "t", "t", "p", ")">>

\* The strings of the name cells a table can hold.
CellNames == {d.string : d \in {x \in DescPool : IsNameCell(x)}}

\* C3: with a country filter the result holds only that country's entry, and
\* a country the catalog does not hold yields an empty result, not an error.
C3_FilterNeverFails ==
    Truthy(country) =>
        /\ merr # "KeyError(country)"
        /\ mpc = "done" =>
               mresult = IF country \in DOMAIN mirrors
                         THEN [c \in {country} |-> mirrors[c]]
                         ELSE EmptyDict

\* A page of one recognised heading and one scanned table that held one
\* name cell, one http link and one link of another scheme.
OneHeadingOneTable ==
    /\ mpc \in {"scan", "return", "done"}
    /\ seen.h3 = 1 /\ seen.tables = 1
    /\ seen.cells = 1 /\ seen.http = 1 /\ seen.other = 1

TakesTag == mpc = "scan" /\ ntags' = ntags + 1

\* mirrors' differs from mirrors at most in the entry of country c.
OnlyEntryChanges(c) ==
    /\ DOMAIN mirrors' = DOMAIN mirrors \cup {c}
    /\ \A k \in DOMAIN mirrors : k # c => mirrors'[k] = mirrors[k]

C10_Step ==
    /\ mpc = "scan" /\ ntags = 0 => country_name = None
    /\ TakesTag /\ tag'.name = "h3" /\ tag'.id \in SUPPORTED_COUNTRIES
           /\ mpc' # "raised" =>
          /\ mpc' = "scan"
          /\ country_name' = Split(tag'.string)[3]
          /\ OnlyEntryChanges(country_name')
          /\ mirrors'[country_name'] = EmptyDict
    /\ TakesTag /\ tag'.name = "table" /\ country_name # None =>
          /\ mpc' = "table"
          /\ country_name' = country_name
          /\ mirrors' = mirrors
    /\ TakesTag /\ tag'.name = "table" /\ country_name = None =>
          /\ mpc' = "scan"
          /\ country_name' = None
          /\ mirrors' = mirrors
    /\ TakesTag /\ tag'.name \notin {"h3", "table"} =>
          /\ country_name' = country_name
          /\ mirrors' = mirrors
    /\ mpc = "table" =>
          /\ country_name # None
          /\ OnlyEntryChanges(country_name)
          /\ \A l \in DOMAIN mirrors'[country_name] :
                \/ /\ l \in DOMAIN mirrors[country_name]
                   /\ mirrors'[country_name][l] = mirrors[country_name][l]
                \/ HasHttpScheme(mirrors'[country_name][l])
          /\ mpc' = "table" => country_name' = country_name
          /\ mpc' = "scan" => country_name' = None
    /\ seen'.sinceH3 <= 1

ScrapesUnfiltered == country = None /\ ntags > 0

\* C11 as stated: whatever the page holds, get_mirrors_from_web() without a
\* country filter returns a map and never fails with an error.
C11_DeviationNeverRaises == ScrapesUnfiltered => mpc # "raised"

\* The tag taken is a recognised heading without three tokens of plain text.
MalformedHeading(t) ==
    /\ IsCountryHeading(t)
    /\ t.string = None \/ Len(Split(t.string)) < 3

C11_Step ==
    \* the errors the scan can end with, and what the page held then
    /\ ScrapesUnfiltered /\ mpc = "raised" =>
          /\ merr \in {"AttributeError", "IndexError", "UnboundLocalError",
                        "KeyError(href)"}
          /\ merr = "AttributeError" =>
                IsCountryHeading(tag) /\ tag.string = None
          /\ merr = "IndexError" =>
                /\ IsCountryHeading(tag) /\ tag.string # None
                /\ Len(Split(tag.string)) < 3
          /\ merr = "UnboundLocalError" =>
                tag.name = "table" /\ mirror_name = Unbound
    \* a recognised heading without plain text or with fewer than three
    \* tokens fails the call and leaves no result
    /\ TakesTag /\ MalformedHeading(tag') =>
          /\ mpc' = "raised"
          /\ merr' = IF tag'.string = None THEN "AttributeError"
                                            ELSE "IndexError"
          /\ mirrors' = mirrors
    \* before any name cell of the page, a step inside a table takes a name
    \* cell, passes over another descendant, ends the table or fails: no link
    \* is stored or counted
    /\ mpc = "table" /\ mirror_name = Unbound /\ mpc' # "raised" =>
          /\ mirrors' = mirrors
          /\ seen'.http = 0 /\ seen'.other = 0
    /\ (mpc \in {"scan", "table"} \/ ntags > 0) /\ mirror_name = Unbound =>
          \A c \in DOMAIN mirrors : mirrors[c] = EmptyDict
    \* after a name cell of any table, a link fails only for want of href
    /\ mpc = "table" /\ mirror_name # Unbound /\ mpc' = "raised" =>
          merr' = "KeyError(href)"
    \* a heading that no table followed leaves its country an empty entry
    /\ ScrapesUnfiltered /\ mpc = "done" /\ country_name # None =>
          /\ country_name \in DOMAIN mresult
          /\ mresult[country_name] = EmptyDict
    \* the end of the page never fails an unfiltered call
    /\ country = None /\ mpc = "return" => mpc' = "done" /\ mresult' = mirrors

\* C11 amended: a deviation of the page is silent only in part.  A recognised
\* heading with no plain text or with fewer than three tokens fails the call
\* (AttributeError, IndexError); a link met before any name cell of the page
\* fails it (UnboundLocalError) and none is stored, while a link met before
\* the name cell of a later table is stored under the name of the earlier
\* table; a heading that no table follows returns an empty entry for its
\* country.
C11_DeviationRaisesOrSilent == [][C11_Step]_vars

\* A table without a name cell of its own: its http link was stored for the
\* second country under the mirror name of the first country's table, and
\* the call returned.
C11_Witness ==
    /\ ScrapesUnfiltered /\ mpc = "done"
    /\ seen.h3 = 2 /\ seen.tables = 2 /\ seen.cells = 0 /\ seen.http = 1
    /\ mirror_name = M1
    /\ USA \in DOMAIN mresult
    /\ DOMAIN mresult[USA] = {HttpLabel(M1)}

-----------------------------------------------------------------------------
(* Properties of get_choices and get_user_choice.                          *)

Distinct(seq) == \A i, j \in DOMAIN seq : seq[i] = seq[j] => i = j

\* a comes before b in ascending lexicographic order of code points.
LexBefore(a, b) ==
    \E k \in 1..(Len(b)) :
        /\ k <= Len(a) + 1
        /\ \A i \in 1..(k - 1) : a[i] = b[i]
        /\ k = Len(a) + 1 \/ Ord(a[k]) < Ord(b[k])

PositionIn(seq, item) == CHOOSE i \in DOMAIN seq : seq[i] = item

\* C5: for distinct items get_choices maps each item to its 1-based position:
\* with sort, one more than the number of items lexicographically before it
\* (the smallest gets 1, ordinals contiguous); without, its input position.
C5_OrdinalIsPosition ==
    uop = "choices" /\ upc = "done" /\ Distinct(items) =>
        /\ DOMAIN choices = Range(items)
        /\ \A item \in Range(items) :
              choices[item] =
                  IF sort
                  THEN 1 + Cardinality({x \in Range(items) :
                                           LexBefore(x, item)})
                  ELSE PositionIn(items, item)

\* Three distinct items given out of order were numbered in sorted order,
\* a proper prefix before the longer string.
C5_Witness ==
    /\ uop = "choices" /\ upc = "done"
    /\ sort
    /\ items = <<ItemB, ItemAB, ItemA>>
    /\ choices[ItemA] = 1 /\ choices[ItemAB] = 2 /\ choices[ItemB] = 3

\* The line is an integer that is an ordinal of choices.
ValidLine(line) ==
    ParseInt(line).ok /\ ParseInt(line).val \in Range(choices)

ValidPositions == {i \in DOMAIN inputs : ValidLine(inputs[i])}

C6_Safe ==
    uop = "prompt" =>
        /\ upc = "call" => nread = 0
        /\ upc = "prompt" => \A i \in 1..nread : ~ValidLine(inputs[i])
        /\ upc = "done" =>
              /\ ValidPositions # {}
              /\ nread = Min(ValidPositions)
              /\ uresult \in DOMAIN choices
              /\ choices[uresult] = ParseInt(inputs[nread]).val
        /\ upc = "raised" => ValidPositions = {}

-----------------------------------------------------------------------------
(* Properties of get_public_ip and download_file.                          *)

\* The body is a JSON object with the member "ip".
HasIpMember(b) == IsJson(b) /\ b[1] = "{" /\ Len(b) > 2 /\ b[2] = IpKey

\* C7: get_public_ip never raises: it returns None when the fetch fails,
\* when the body is not JSON or when the body lacks the key ip, and the
\* value under ip otherwise.
C7_NoneOrIpNeverRaises ==
    uop = "ip" /\ upc # "call" =>
        /\ upc = "done"
        /\ uresult = IF body # FetchFailed /\ HasIpMember(body)
                     THEN SubSeq(body, 4, Len(body) - 1)
                     ELSE None

\* C8: download_file makes one retrieval attempt and returns a pair rather
\* than raising: (False, message) when the retrieval raised an IOError, and
\* otherwise (destination exists, None), whatever the retrieval returned.
C8_ResultPair ==
    uop = "download" =>
        /\ upc # "raised"
        /\ upc = "done" =>
              /\ retrieval.calls = 1
              /\ uresult = IF retrieval.raised
                           THEN <<FALSE, retrieval.message>>
                           ELSE <<Destination \in fs, None>>

\* The retrieval returned the destination and no file is there: no success.
C8_Witness ==
    /\ uop = "download" /\ upc = "done"
    /\ ~retrieval.raised
    /\ retrieval.returned = Destination
    /\ Destination \notin fs
    /\ uresult = <<FALSE, None>>

=============================================================================
